---- MODULE Spec2Model ----
(***************************************************************************)
(* Model of the stack sequence orchestrator of cf-deploy.py: the sequence  *)
(* runners deploy_in_order / delete_in_reverse_order, the thread fan-out   *)
(* and join of deploy_parallel / delete_parallel, and the provider gateway *)
(* (boto3 CloudFormation client) as a nondeterministic environment.        *)
(* The repository holds two builds of the script, src/scripts/cf-deploy.py *)
(* ("scripts") and src/cf-deploy.py ("root"); the variable build says      *)
(* which one runs.                                                         *)
(***************************************************************************)
EXTENDS Integers, Sequences, FiniteSets, TLC

\* ---- bounds ----
NumSeq == 2      \* sequences handed to the orchestrator
SeqLen == 2      \* operations per sequence
MaxRuns == 2     \* orchestrator invocations by the caller
MaxId == 2       \* distinct identifiers the gateway may return

Seqs == 1..NumSeq
Positions == 1..SeqLen
StackIds == 1..MaxId
Builds == {"scripts", "root"}
Methods == {"create_stack", "update_stack", "other"}

VARIABLES
  build,      \* which of the two source files is running
  stacks,     \* the sequences structure: stacks[s][i] is a param dict
  call,       \* the orchestrator call in progress: [fn, method]
  orchPc,     \* position of the calling thread
  jobs,       \* the list jobs of the orchestrator (job numbers, in spawn order)
  sawLiving,  \* whether the last evaluation of the join loop condition found a live job
  alive,      \* alive[w]: Thread.is_alive() of job w
  pc,         \* pc[w]: position of job w inside its runner
  idx,        \* idx[w]: how many items of its iteration job w has taken
  trace,      \* trace[w]: what job w did in this run, in order
  pre,        \* the sequences structure as it was when the current run started
  hist,       \* per operation: what has completed on it so far
  preHist,    \* hist as it was when the current run started
  runs,       \* number of orchestrator invocations so far
  cli         \* check_user_admission of __main__: [pc, retry, answers]

vars == <<build, stacks, call, orchPc, jobs, sawLiving, alive, pc, idx, trace,
          pre, hist, preHist, runs, cli>>

\* ---- param dicts ----

\* validate_template's answer for the template of position i: the first template of a
\* sequence needs no acknowledgement, the later ones need one.
ValidateTemplate(i) == IF i = 1 THEN [Present |-> FALSE, Capabilities |-> {}]
                       ELSE [Present |-> TRUE, Capabilities |-> {"CAPABILITY_IAM"}]

GetCapabilities(b, i) ==
  LET r == ValidateTemplate(i)
  IN IF r.Present THEN r.Capabilities
     ELSE IF b = "scripts" THEN {} ELSE {"None"}

BuildTemplateParams(b, s, i) ==
  LET base == [StackName |-> <<s, i>>, TemplateBody |-> i, Parameters |-> <<s, i>>]
      caps == GetCapabilities(b, i)
  IN IF b = "scripts" \/ (caps # {} /\ caps # {"None"})
     THEN base @@ [Capabilities |-> caps]
     ELSE base

HasStackId(param) == "StackId" \in DOMAIN param

\* Mutant of SetStackId: the identifier of the response is not stored.
SetStackIdDropped(param, id) == param

\* Mutant of SetStackId: the param is replaced by the response instead of gaining a
\* key.
SetStackIdReplaces(param, id) == [StackId |-> id]

SetStackId(param, id) ==
  [k \in DOMAIN param \cup {"StackId"} |-> IF k = "StackId" THEN id ELSE param[k]]

\* Mutant of PopStackId: the key is left in the dict.
PopStackIdKeeps(param) == param

PopStackId(param) == [k \in DOMAIN param \ {"StackId"} |-> param[k]]

\* ---- runner helpers ----

Forward(k) == k
\* Mutant of Reversed: the sequence is iterated front to back.
ReversedForgotten(n, k) == k

Reversed(n, k) == n + 1 - k

\* Mutant of KnownMethod: the else branch is missing, any method goes on to the loop.
KnownMethodAny(method) == TRUE

\* The if / elif of deploy_in_order: the methods that do not reach raise ValueError.
KnownMethod(method) == method \in {"create_stack", "update_stack"}

WaitOperation(method) ==
  IF method = "create_stack" THEN "stack_create_complete" ELSE "stack_update_complete"

Message(method) == IF method = "create_stack" THEN "created" ELSE "updated"

DoneMessage(b, method) == IF b = "scripts" THEN Message(method) ELSE "created"

\* Mutant of ExitPc: no try block, every exception leaves the thread's target.
ExitPcUncaught(where) == "raised"

\* Where an exception raised at `where` leaves the runner: inside the try block it is
\* caught and the runner returns; before the try block it leaves the thread's target.
ExitPc(where) == IF where = "try" THEN "done" ELSE "raised"

\* Mutant of AfterMethod: a failed gateway call is swallowed and the loop goes on.
AfterMethodSwallows(ok, k) == [pc |-> "wait", idx |-> k]

\* The runner loop after the gateway call of the k-th item.
AfterMethod(ok, k) ==
  IF ok THEN [pc |-> "wait", idx |-> k] ELSE [pc |-> ExitPc("try"), idx |-> k]

\* Mutant of AfterWait: a failed wait is swallowed and the loop goes on.
AfterWaitSwallows(ok, k, n) ==
  IF k < n THEN [pc |-> "call", idx |-> k + 1] ELSE [pc |-> "done", idx |-> k]

\* Mutant of AfterWait: the wait has no attempt budget, so a stack that never reaches
\* its terminal state keeps the thread waiting for ever.
AfterWaitUnbounded(ok, k, n) ==
  IF ~ok THEN [pc |-> "hung", idx |-> k]
  ELSE IF k < n THEN [pc |-> "call", idx |-> k + 1]
  ELSE [pc |-> "done", idx |-> k]

\* Mutant of AfterWait: a failed wait makes the runner try the same operation again.
AfterWaitRetries(ok, k, n) ==
  IF ~ok THEN [pc |-> "call", idx |-> k]
  ELSE IF k < n THEN [pc |-> "call", idx |-> k + 1]
  ELSE [pc |-> "done", idx |-> k]

\* The runner loop after wait_stack of the k-th item of n.
AfterWait(ok, k, n) ==
  IF ~ok THEN [pc |-> ExitPc("try"), idx |-> k]
  ELSE IF k < n THEN [pc |-> "call", idx |-> k + 1]
  ELSE [pc |-> "done", idx |-> k]

\* Mutant of AfterDeleteWait: the identifier is cleared before the wait is known to
\* have succeeded.
AfterDeleteWaitClearsEarly(param, ok) == PopStackId(param)

\* The param after the delete wait of the runner.
AfterDeleteWait(param, ok) == IF ok THEN PopStackId(param) ELSE param

\* Mutant of SequenceOf: every thread is handed the first sequence.
SequenceOfFirst(j) == 1

\* The sequence handed to job number j.
SequenceOf(j) == j

Ev(ev, op, id, msg) == [ev |-> ev, op |-> op, id |-> id, msg |-> msg]

\* Mutant of Except: the exception is swallowed without a report.
ExceptSilent(i) == <<>>

\* The except clause of a runner, entered from the step of operation i: one
\* logger.error.
Except(i) == <<Ev("error", i, 0, "")>>

\* Mutant of AfterDeleted: the event is logged before the identifier is cleared.
AfterDeletedLogsFirst(i) == <<Ev("info", i, 0, "deleted"), Ev("pop", i, 0, "")>>

\* What delete_in_reverse_order does once the delete wait has returned: clear the
\* StackId, then log.
AfterDeleted(i) == <<Ev("pop", i, 0, ""), Ev("info", i, 0, "deleted")>>

\* ---- orchestrator helpers ----

Living == {w \in Seqs : \E k \in 1..Len(jobs) : jobs[k] = w /\ alive[w]}

\* Mutant of LoopCondition: the loop goes on only while every job is alive.
LoopConditionAll(b, living, js) == living = {js[k] : k \in 1..Len(js)}

\* Mutant of LoopCondition: the loop is never entered.
LoopConditionNever(b, living, js) == FALSE

\* The condition of the join loop.
LoopCondition(b, living, js) == IF b = "scripts" THEN living # {} ELSE TRUE

NoHist == [completed |-> "none", called |-> FALSE]

\* ---- initial state ----

\* The state after the sequences are built: nothing has run yet.
Built ==
  /\ stacks = [s \in Seqs |-> [i \in Positions |-> BuildTemplateParams(build, s, i)]]
  /\ call = [fn |-> "none", method |-> "none"]
  /\ orchPc = "idle"
  /\ jobs = <<>>
  /\ sawLiving = TRUE
  /\ alive = [w \in Seqs |-> FALSE]
  /\ pc = [w \in Seqs |-> "idle"]
  /\ idx = [w \in Seqs |-> 0]
  /\ trace = [w \in Seqs |-> <<>>]
  /\ pre = stacks
  /\ hist = [s \in Seqs |-> [i \in Positions |-> NoHist]]
  /\ preHist = hist
  /\ runs = 0

\* The functions of either file, called by any caller.
Init ==
  /\ build \in Builds
  /\ cli = [pc |-> "none", retry |-> 0, answers |-> <<>>]
  /\ Built

\* __main__ of src/scripts/cf-deploy.py, about to call check_user_admission.
MainInit ==
  /\ build = "scripts"
  /\ cli = [pc |-> "asking", retry |-> 0, answers |-> <<>>]
  /\ Built

\* ---- the caller ----

Invoke(fn, method) ==
  /\ orchPc \in {"idle", "returned"}
  /\ runs < MaxRuns
  /\ runs' = runs + 1
  /\ call' = [fn |-> fn, method |-> method]
  /\ orchPc' = "spawn"
  /\ jobs' = <<>>
  /\ sawLiving' = TRUE
  /\ alive' = [w \in Seqs |-> FALSE]
  /\ pc' = [w \in Seqs |-> "idle"]
  /\ idx' = [w \in Seqs |-> 0]
  /\ trace' = [w \in Seqs |-> <<>>]
  /\ pre' = stacks
  /\ preHist' = hist
  /\ UNCHANGED <<build, stacks, hist>>

DeployParallel == (\E m \in Methods : Invoke("deploy_parallel", m)) /\ UNCHANGED cli

DeleteParallel == Invoke("delete_parallel", "none") /\ UNCHANGED cli

\* ---- __main__ of src/scripts/cf-deploy.py ----

Answers == {"y", "Y", "n", "N", "x", ""}

Lower(a) == IF a = "Y" THEN "y" ELSE IF a = "N" THEN "n" ELSE a

\* Mutant of Admission: whatever is not "n" counts as consent.
AdmissionDefaultYes(a) == IF a = "n" THEN "break" ELSE "return"

\* The if / elif / else of check_user_admission on the lowered answer.
Admission(a) == IF a = "n" THEN "break" ELSE IF a = "y" THEN "return" ELSE "retry"

\* One iteration of the while loop of check_user_admission; leaving the loop prints
\* "Cancelled" and exits the process.
Ask ==
  /\ cli.pc = "asking"
  /\ cli.retry < 2
  /\ \E a \in Answers :
       LET r == Admission(Lower(a))
           retry == IF r = "retry" THEN cli.retry + 1 ELSE cli.retry
       IN cli' = [pc |-> IF r = "return" THEN "admitted"
                         ELSE IF r = "break" \/ ~(retry < 2) THEN "cancelled"
                         ELSE "asking",
                  retry |-> retry,
                  answers |-> Append(cli.answers, a)]
  /\ UNCHANGED <<build, stacks, call, orchPc, jobs, sawLiving, alive, pc, idx, trace,
                 pre, hist, preHist, runs>>

\* delete_parallel(sequences), reached when check_user_admission returned.
MainDelete ==
  /\ cli.pc = "admitted"
  /\ Invoke("delete_parallel", "none")
  /\ cli' = [cli EXCEPT !.pc = "started"]

\* ---- deploy_parallel / delete_parallel ----

Spawn ==
  /\ orchPc = "spawn"
  /\ LET j == Len(jobs) + 1
     IN /\ alive' = [alive EXCEPT ![j] = TRUE]
        /\ pc' = [pc EXCEPT ![j] = "entry"]
        /\ jobs' = Append(jobs, j)
        /\ orchPc' = IF j = NumSeq THEN "join" ELSE "spawn"
  /\ UNCHANGED <<cli, build, stacks, call, sawLiving, idx, trace, pre, hist, preHist, runs>>

\* One evaluation of the join loop condition; the loop body is sleep(1).
JoinCheck ==
  /\ orchPc \in {"join", "sleep"}
  /\ sawLiving' = (Living # {})
  /\ orchPc' = IF LoopCondition(build, Living, jobs) THEN "sleep" ELSE "returned"
  /\ UNCHANGED <<cli, build, stacks, call, jobs, alive, pc, idx, trace, pre, hist, preHist, runs>>

\* The main thread ends after the orchestrator returned: daemon threads still alive
\* are killed with the process.
ProcessExit ==
  /\ orchPc = "returned"
  /\ orchPc' = "exited"
  /\ pc' = [w \in Seqs |-> IF alive[w] THEN "killed" ELSE pc[w]]
  /\ alive' = [w \in Seqs |-> FALSE]
  /\ UNCHANGED <<cli, build, stacks, call, jobs, sawLiving, idx, trace, pre, hist, preHist, runs>>

\* ---- deploy_in_order / delete_in_reverse_order, run by job w ----

Item(w) == IF call.fn = "deploy_parallel" THEN Forward(idx[w]) ELSE Reversed(SeqLen, idx[w])

Enter(w) ==
  /\ pc[w] = "entry"
  /\ IF call.fn = "deploy_parallel" /\ ~KnownMethod(call.method)
     THEN /\ pc' = [pc EXCEPT ![w] = ExitPc("entry")]
          /\ alive' = [alive EXCEPT ![w] = FALSE]
          /\ idx' = idx
     ELSE /\ pc' = [pc EXCEPT ![w] = "call"]
          /\ idx' = [idx EXCEPT ![w] = 1]
          /\ alive' = alive
  /\ UNCHANGED <<cli, build, stacks, call, orchPc, jobs, sawLiving, trace, pre, hist, preHist, runs>>

DeployCall(w) ==
  /\ pc[w] = "call"
  /\ call.fn = "deploy_parallel"
  /\ \E ok \in BOOLEAN, id \in StackIds :
       LET s == SequenceOf(w)
           i == Item(w)
           nxt == AfterMethod(ok, idx[w])
       IN /\ stacks' = IF ok THEN [stacks EXCEPT ![s][i] = SetStackId(@, id)] ELSE stacks
          /\ hist' = IF ok THEN [hist EXCEPT ![s][i].called = TRUE] ELSE hist
          /\ trace' = [trace EXCEPT ![w] = @ \o
                         (IF ok
                          THEN <<Ev("call", i, id, call.method),
                                 Ev("info", i, 0, "being " \o Message(call.method))>>
                          ELSE <<Ev("callfail", i, 0, call.method)>> \o Except(i))]
          /\ pc' = [pc EXCEPT ![w] = nxt.pc]
          /\ idx' = [idx EXCEPT ![w] = nxt.idx]
          /\ alive' = [alive EXCEPT ![w] = nxt.pc \notin {"done", "raised"}]
  /\ UNCHANGED <<cli, build, call, orchPc, jobs, sawLiving, pre, preHist, runs>>

DeployWait(w) ==
  /\ pc[w] = "wait"
  /\ call.fn = "deploy_parallel"
  /\ \E ok \in BOOLEAN :
       LET s == SequenceOf(w)
           i == Item(w)
           nxt == AfterWait(ok, idx[w], SeqLen)
       IN /\ hist' = IF ok THEN [hist EXCEPT ![s][i].completed = "deploy"] ELSE hist
          /\ trace' = [trace EXCEPT ![w] = @ \o
                         (IF ok
                          THEN <<Ev("wait", i, 0, WaitOperation(call.method)),
                                 Ev("info", i, 0, DoneMessage(build, call.method))>>
                          ELSE <<Ev("waitfail", i, 0, WaitOperation(call.method))>>
                                 \o Except(i))]
          /\ pc' = [pc EXCEPT ![w] = nxt.pc]
          /\ idx' = [idx EXCEPT ![w] = nxt.idx]
          /\ alive' = [alive EXCEPT ![w] = nxt.pc \notin {"done", "raised"}]
  /\ UNCHANGED <<cli, build, stacks, call, orchPc, jobs, sawLiving, pre, preHist, runs>>

DeleteCall(w) ==
  /\ pc[w] = "call"
  /\ call.fn = "delete_parallel"
  /\ \E ok \in BOOLEAN :
       LET i == Item(w)
           nxt == AfterMethod(ok, idx[w])
       IN /\ trace' = [trace EXCEPT ![w] = @ \o
                         (IF ok
                          THEN <<Ev("call", i, 0, "delete_stack"),
                                 Ev("info", i, 0, "being deleted")>>
                          ELSE <<Ev("callfail", i, 0, "delete_stack")>> \o Except(i))]
          /\ pc' = [pc EXCEPT ![w] = nxt.pc]
          /\ idx' = [idx EXCEPT ![w] = nxt.idx]
          /\ alive' = [alive EXCEPT ![w] = nxt.pc \notin {"done", "raised"}]
  /\ UNCHANGED <<cli, build, stacks, call, orchPc, jobs, sawLiving, pre, hist, preHist, runs>>

DeleteWait(w) ==
  /\ pc[w] = "wait"
  /\ call.fn = "delete_parallel"
  /\ \E ok \in BOOLEAN :
       LET s == SequenceOf(w)
           i == Item(w)
           nxt == AfterWait(ok, idx[w], SeqLen)
       IN /\ stacks' = [stacks EXCEPT ![s][i] = AfterDeleteWait(@, ok)]
          /\ hist' = IF ok THEN [hist EXCEPT ![s][i] = [completed |-> "delete",
                                                        called |-> FALSE]]
                     ELSE hist
          /\ trace' = [trace EXCEPT ![w] = @ \o
                         (IF ok
                          THEN <<Ev("wait", i, 0, "stack_delete_complete")>>
                                 \o AfterDeleted(i)
                          ELSE <<Ev("waitfail", i, 0, "stack_delete_complete")>>
                                 \o Except(i))]
          /\ pc' = [pc EXCEPT ![w] = nxt.pc]
          /\ idx' = [idx EXCEPT ![w] = nxt.idx]
          /\ alive' = [alive EXCEPT ![w] = nxt.pc \notin {"done", "raised"}]
  /\ UNCHANGED <<cli, build, call, orchPc, jobs, sawLiving, pre, preHist, runs>>

Worker(w) ==
  /\ alive[w]
  /\ \/ Enter(w)
     \/ DeployCall(w)
     \/ DeployWait(w)
     \/ DeleteCall(w)
     \/ DeleteWait(w)

Next ==
  \/ DeployParallel
  \/ DeleteParallel
  \/ Spawn
  \/ JoinCheck
  \/ ProcessExit
  \/ \E w \in Seqs : Worker(w)

Spec == Init /\ [][Next]_vars

MainNext ==
  \/ Ask
  \/ MainDelete
  \/ Spawn
  \/ JoinCheck
  \/ ProcessExit
  \/ \E w \in Seqs : Worker(w)

MainSpec == MainInit /\ [][MainNext]_vars

\* Every started thread is scheduled, and every gateway call and every wait returns
\* or raises (the waiter gives up after MaxAttempts polls).
FairSpec == Spec /\ \A w \in Seqs : WF_vars(Worker(w))

\* ---- what a job did in the current run, read from its trace ----

InDeploy == call.fn = "deploy_parallel" /\ call.method \in {"create_stack", "update_stack"}
InDelete == call.fn = "delete_parallel"

IsCall(e) == e.ev \in {"call", "callfail"}
IsWait(e) == e.ev \in {"wait", "waitfail"}

Called(w, i) == \E k \in 1..Len(trace[w]) : IsCall(trace[w][k]) /\ trace[w][k].op = i
CallOk(w, i) == \E k \in 1..Len(trace[w]) : trace[w][k].ev = "call" /\ trace[w][k].op = i
CallFailed(w, i) ==
  \E k \in 1..Len(trace[w]) : trace[w][k].ev = "callfail" /\ trace[w][k].op = i
WaitStarted(w, i) == \E k \in 1..Len(trace[w]) : IsWait(trace[w][k]) /\ trace[w][k].op = i
WaitOk(w, i) == \E k \in 1..Len(trace[w]) : trace[w][k].ev = "wait" /\ trace[w][k].op = i
WaitFailed(w, i) ==
  \E k \in 1..Len(trace[w]) : trace[w][k].ev = "waitfail" /\ trace[w][k].op = i
FailedAt(w, i) == CallFailed(w, i) \/ WaitFailed(w, i)
Failed(w) == \E i \in Positions : FailedAt(w, i)
Completed(w) == \A i \in Positions : WaitOk(w, i)
Param(w, i) == stacks[SequenceOf(w)][i]
PreParam(w, i) == pre[SequenceOf(w)][i]

\* ---- claims ----

\* C1: in deploy_in_order the create/update call of operation i+1 is issued only
\* after wait_stack of operation i has returned success: in the record of what a job
\* did, every call of an operation other than the first is preceded by the successful
\* wait of the operation before it, whatever the other jobs do meanwhile.
C1_SequenceOrdering ==
  InDeploy =>
    \A w \in Seqs : \A k \in 1..Len(trace[w]) :
      (IsCall(trace[w][k]) /\ trace[w][k].op > 1) =>
        \E j \in 1..(k - 1) :
          trace[w][j].ev = "wait" /\ trace[w][j].op = trace[w][k].op - 1

C1_Witness ==
  /\ InDeploy
  /\ \E w \in Seqs, v \in Seqs : w # v /\ Called(w, 2) /\ WaitOk(w, 1) /\ pc[v] = "wait"

\* C2 as stated: once operation i of a sequence has failed in deploy_in_order and the
\* runner has returned, the operations after i carry no StackId.
C2_LaterOperationsHaveNoStackId ==
  InDeploy =>
    \A w \in Seqs : \A i \in Positions :
      (FailedAt(w, i) /\ pc[w] = "done") =>
        \A j \in Positions : j > i => ~HasStackId(Param(w, j))

\* C2 as amended: once operation i of a sequence has failed in deploy_in_order, no
\* gateway call and no wait is ever made for the operations after i, and those
\* operations are as they were when the run started (no StackId if they had none).
C2_AbortOnFailure ==
  InDeploy =>
    \A w \in Seqs : \A i \in Positions :
      FailedAt(w, i) =>
        \A j \in Positions :
          j > i => /\ ~Called(w, j)
                   /\ ~WaitStarted(w, j)
                   /\ Param(w, j) = PreParam(w, j)

C2_Witness ==
  /\ InDeploy
  /\ \E w \in Seqs : WaitFailed(w, 1) /\ pc[w] = "done" /\ HasStackId(Param(w, 2))

\* C3: when deploy_parallel runs two sequences and the gateway call of the first
\* operation of one of them fails, the job of the other is never cut short: it is not
\* killed, and when it ends without a failure of its own every one of its operations
\* has been called and carries a StackId.
C3_FanOutIndependence ==
  InDeploy =>
    \A a \in Seqs, b \in Seqs :
      (a # b /\ CallFailed(a, 1)) =>
        /\ pc[b] # "killed"
        /\ (pc[b] = "done" /\ ~Failed(b)) =>
             \A i \in Positions : Called(b, i) /\ HasStackId(Param(b, i))

C3_Witness ==
  /\ InDeploy
  /\ orchPc = "exited"
  /\ CallFailed(1, 1)
  /\ pc[2] = "done"
  /\ Completed(2)

\* C4: deploy_parallel and delete_parallel return only after every job has been
\* spawned and has terminated; no job is ever killed by the end of the process.
C4_JoinCompleteness ==
  /\ orchPc = "returned" =>
       /\ Len(jobs) = NumSeq
       /\ \A w \in Seqs : ~alive[w] /\ pc[w] \in {"done", "raised"}
  /\ \A w \in Seqs : pc[w] # "killed"

C4_Witness ==
  /\ orchPc = "returned"
  /\ InDelete
  /\ \E w \in Seqs : Failed(w)
  /\ \E w \in Seqs : Completed(w)

\* C5: once no spawned job is alive, the join loop of deploy_parallel and
\* delete_parallel is left: an evaluation of the loop condition that finds no live job
\* does not send the orchestrator back to sleep.
C5_JoinLoopExits == orchPc = "sleep" => sawLiving

\* C6: delete_in_reverse_order issues its Delete calls from the last operation of the
\* sequence to the first: every Delete call of an operation other than the last is
\* preceded by the successful delete wait of the operation after it.
C6_ReverseOrder ==
  InDelete =>
    \A w \in Seqs : \A k \in 1..Len(trace[w]) :
      (IsCall(trace[w][k]) /\ trace[w][k].op < SeqLen) =>
        \E j \in 1..(k - 1) :
          trace[w][j].ev = "wait" /\ trace[w][j].op = trace[w][k].op + 1

C6_Witness ==
  /\ InDelete
  /\ \E w \in Seqs :
       /\ Len(trace[w]) >= 3
       /\ trace[w][1].ev = "call" /\ trace[w][1].op = SeqLen
       /\ trace[w][3].ev = "wait" /\ trace[w][3].op = SeqLen
       /\ Called(w, SeqLen - 1)

\* C7: in delete_in_reverse_order, once the Delete call or the delete wait of
\* operation i has failed, no Delete call is ever made for the operations before i,
\* and operation i and the operations before it are as they were when the run
\* started.
C7_DeleteAbortOnFailure ==
  InDelete =>
    \A w \in Seqs : \A i \in Positions :
      FailedAt(w, i) =>
        /\ \A j \in Positions : j < i => ~Called(w, j)
        /\ \A j \in Positions : j <= i => Param(w, j) = PreParam(w, j)

C7_Witness ==
  /\ InDelete
  /\ \E w \in Seqs :
       /\ WaitFailed(w, SeqLen)
       /\ pc[w] = "done"
       /\ HasStackId(PreParam(w, SeqLen))
       /\ HasStackId(PreParam(w, 1))

\* The identifier the gateway returned to job w for operation i in this run.
Returned(w, i) ==
  {trace[w][k].id : k \in {n \in 1..Len(trace[w]) :
                             trace[w][n].ev = "call" /\ trace[w][n].op = i}}

\* C8: after the create call and the create wait of an operation have both
\* succeeded, the operation carries the identifier the gateway returned; after the
\* delete call and the delete wait of an operation have both succeeded, it carries no
\* StackId.
C8_IdentifierLifecycle ==
  \A w \in Seqs : \A i \in Positions :
    /\ (InDeploy /\ call.method = "create_stack" /\ WaitOk(w, i)) =>
         /\ HasStackId(Param(w, i))
         /\ Returned(w, i) = {Param(w, i).StackId}
    /\ (InDelete /\ WaitOk(w, i)) => ~HasStackId(Param(w, i))

C8_Witness ==
  /\ InDelete
  /\ \E w \in Seqs : \E i \in Positions :
       /\ WaitOk(w, i)
       /\ preHist[SequenceOf(w)][i].completed = "deploy"
       /\ HasStackId(PreParam(w, i))
       /\ ~HasStackId(Param(w, i))

\* C9 as stated: whenever no job is running, an operation carries a StackId if and
\* only if the last operation completed on it (call and wait both successful) was a
\* create/update.
C9_StackIdIffLastCompletedDeploy ==
  (\A w \in Seqs : ~alive[w]) =>
    \A s \in Seqs : \A i \in Positions :
      HasStackId(stacks[s][i]) <=> hist[s][i].completed = "deploy"

\* C9 as amended: in every state an operation carries a StackId if and only if a
\* create/update call on it has succeeded and no delete (call and wait) has completed
\* on it since that call; the wait of the create/update need not have succeeded.
C9_StackIdIffDeployCalled ==
  \A s \in Seqs : \A i \in Positions :
    HasStackId(stacks[s][i]) <=> hist[s][i].called

C9_Witness ==
  /\ \A w \in Seqs : ~alive[w]
  /\ InDeploy
  /\ \E w \in Seqs :
       /\ WaitFailed(w, 1)
       /\ HasStackId(Param(w, 1))
       /\ hist[SequenceOf(w)][1].completed = "none"

\* C10: a failed gateway call or a failed wait never leaves the runner as an
\* exception (a job ends by an exception only when deploy_in_order was given a method
\* it does not know), a job that ended did so by its own failure or by completing its
\* sequence, and in src/scripts/cf-deploy.py the orchestrator returns at the first
\* evaluation of the join condition that finds no live job.
C10_FailureIsolation ==
  /\ \A w \in Seqs :
       /\ pc[w] = "raised" => (call.fn = "deploy_parallel" /\ call.method = "other")
       /\ pc[w] = "done" => (Failed(w) \/ Completed(w))
       /\ Failed(w) => pc[w] = "done"
  /\ build = "scripts" => (orchPc = "sleep" => sawLiving)

C10_Witness ==
  /\ orchPc = "returned"
  /\ build = "scripts"
  /\ \E w \in Seqs, v \in Seqs :
       /\ CallFailed(w, 1)
       /\ WaitFailed(v, SeqLen)
       /\ pc[w] = "done" /\ pc[v] = "done"

\* C11: a runner reports an error exactly once when its sequence aborted and never
\* when every operation succeeded: each failed call or wait is followed at once by
\* one error report, the report is the last event of the job, and a job that
\* completed its sequence has none.
ErrorReports(w) == {k \in 1..Len(trace[w]) : trace[w][k].ev = "error"}

C11_ErrorReportedOnce ==
  \A w \in Seqs :
    /\ Cardinality(ErrorReports(w)) = (IF Failed(w) THEN 1 ELSE 0)
    /\ \A k \in ErrorReports(w) :
         /\ k = Len(trace[w])
         /\ k > 1
         /\ trace[w][k - 1].ev \in {"callfail", "waitfail"}
    /\ Completed(w) => ErrorReports(w) = {}

C11_Witness ==
  /\ \E w \in Seqs : pc[w] = "done" /\ WaitFailed(w, 2) /\ Cardinality(ErrorReports(w)) = 1
  /\ \E w \in Seqs : pc[w] = "done" /\ Completed(w) /\ ErrorReports(w) = {}

\* The jobs spawned for sequence s, and the jobs that have acted on it in this run.
JobsFor(s) == {k \in 1..Len(jobs) : SequenceOf(jobs[k]) = s}
Actors(s) == {w \in Seqs : SequenceOf(w) = s /\ trace[w] # <<>>}

\* C12: deploy_parallel / delete_parallel spawn exactly one job per sequence, only
\* that job acts on the operations of the sequence, and an operation differs from
\* what it was at the start of the run only if the job of its sequence has called
\* the gateway for it.
C12_ExclusiveOwnership ==
  \A s \in Seqs :
    /\ Cardinality(JobsFor(s)) <= 1
    /\ orchPc \in {"join", "sleep", "returned", "exited"} => Cardinality(JobsFor(s)) = 1
    /\ Cardinality(Actors(s)) <= 1
    /\ \A w \in Actors(s) : \E k \in JobsFor(s) : jobs[k] = w
    /\ \A i \in Positions :
         stacks[s][i] # pre[s][i] => \E w \in Actors(s) : Called(w, i)

C12_Witness ==
  /\ orchPc = "sleep"
  /\ \A s \in Seqs : Cardinality(Actors(s)) = 1
  /\ \A s \in Seqs : \E i \in Positions : stacks[s][i] # pre[s][i]
  /\ \A w \in Seqs : alive[w]

\* C13: the progress events of deploy_in_order name the method performed: a
\* successful call is followed at once by "being created" for create_stack and "being
\* updated" for update_stack, a successful wait by "created" respectively "updated",
\* and no progress event is emitted anywhere else.
Kind == IF call.method = "create_stack" THEN "created" ELSE "updated"

C13_ProgressEvents ==
  InDeploy =>
    \A w \in Seqs : \A k \in 1..Len(trace[w]) :
      /\ trace[w][k].ev = "call" =>
           /\ k < Len(trace[w])
           /\ trace[w][k + 1] = Ev("info", trace[w][k].op, 0, "being " \o Kind)
      /\ trace[w][k].ev = "wait" =>
           /\ k < Len(trace[w])
           /\ trace[w][k + 1] = Ev("info", trace[w][k].op, 0, Kind)
      /\ trace[w][k].ev = "info" =>
           /\ k > 1
           /\ trace[w][k - 1].ev \in {"call", "wait"}
           /\ trace[w][k - 1].op = trace[w][k].op

\* The scenario of C14: a deploy run on sequences that carry no StackId, in which the
\* job of sequence 2 got its first operation through and had the call of its second
\* operation rejected, and the job of sequence 1 has ended without a failure.
Scenario ==
  /\ InDeploy
  /\ \A s \in Seqs : \A i \in Positions : ~HasStackId(pre[s][i])
  /\ WaitOk(2, 1)
  /\ CallFailed(2, 2)
  /\ pc[1] \in {"done", "killed"}
  /\ ~Failed(1)

\* C14: in that scenario every operation of sequence 1 and the first operation of
\* sequence 2 hold a StackId, the second operation of sequence 2 (and any after it)
\* holds none and was never waited for, and sequence 1 is exactly what its own
\* gateway responses make of it: each operation as at the start plus the returned
\* identifier, as in a run without any failure.
C14_ScenarioOutcome ==
  Scenario =>
    /\ \A i \in Positions :
         /\ HasStackId(stacks[1][i])
         /\ \E id \in Returned(1, i) : stacks[1][i] = SetStackId(pre[1][i], id)
    /\ HasStackId(stacks[2][1])
    /\ \A j \in Positions :
         j >= 2 => /\ ~HasStackId(stacks[2][j])
                   /\ ~WaitStarted(2, j)
                   /\ j > 2 => ~Called(2, j)

C14_Witness ==
  /\ Scenario
  /\ orchPc = "exited"
  /\ pc[2] = "done"
  /\ Completed(1)

\* The steps of delete_in_reverse_order on one operation: Delete call, "being
\* deleted", delete wait, then `first` and `second`; the StackId is cleared only by
\* the pop step after a successful wait, never when the call or the wait failed.
DeleteSteps(first, second) ==
  InDelete =>
    \A w \in Seqs :
      /\ \A k \in 1..Len(trace[w]) :
           /\ trace[w][k].ev = "call" =>
                /\ k < Len(trace[w])
                /\ trace[w][k + 1] = Ev("info", trace[w][k].op, 0, "being deleted")
           /\ trace[w][k].ev \in {"wait", "waitfail"} =>
                /\ k > 2
                /\ trace[w][k - 1] = Ev("info", trace[w][k].op, 0, "being deleted")
           /\ trace[w][k].ev = "wait" =>
                /\ k + 2 <= Len(trace[w])
                /\ trace[w][k + 1] = [first EXCEPT !.op = trace[w][k].op]
                /\ trace[w][k + 2] = [second EXCEPT !.op = trace[w][k].op]
           /\ trace[w][k].ev = "pop" => WaitOk(w, trace[w][k].op)
      /\ \A i \in Positions :
           /\ FailedAt(w, i) =>
                /\ Param(w, i) = PreParam(w, i)
                /\ \A k \in 1..Len(trace[w]) :
                     ~(trace[w][k].ev = "pop" /\ trace[w][k].op = i)
           /\ Param(w, i) # PreParam(w, i) =>
                \E k \in 1..Len(trace[w]) : trace[w][k].ev = "pop" /\ trace[w][k].op = i

\* C15 as stated: Delete call, "being deleted" event, delete wait, "deleted" event,
\* then clearing of StackId.
C15_DeletedEventThenClear ==
  DeleteSteps(Ev("info", 0, 0, "deleted"), Ev("pop", 0, 0, ""))

\* C15 as amended: Delete call, "being deleted" event, delete wait, clearing of
\* StackId, then "deleted" event; StackId is never cleared before the wait has
\* succeeded and never cleared when the Delete call or the wait failed.
C15_ClearThenDeletedEvent ==
  DeleteSteps(Ev("pop", 0, 0, ""), Ev("info", 0, 0, "deleted"))

C15_Witness ==
  /\ InDelete
  /\ \E w \in Seqs :
       /\ WaitOk(w, 2)
       /\ HasStackId(PreParam(w, 2))
       /\ ~HasStackId(Param(w, 2))
       /\ WaitFailed(w, 1)
       /\ HasStackId(Param(w, 1))

\* The gateway calls and the waits job w has made in this run.
CallSteps(w) == {k \in 1..Len(trace[w]) : IsCall(trace[w][k])}
WaitSteps(w) == {k \in 1..Len(trace[w]) : IsWait(trace[w][k])}

\* C16: every job terminates: it makes at most one call and one wait per operation
\* of its sequence, a failed wait (budget exhausted or remote failure) ends it, and a
\* job that is alive is eventually not alive.
C16_WorkersTerminate ==
  /\ [](\A w \in Seqs :
          /\ Cardinality(CallSteps(w)) <= SeqLen
          /\ Cardinality(WaitSteps(w)) <= SeqLen
          /\ (\E i \in Positions : WaitFailed(w, i)) => ~alive[w])
  /\ \A w \in Seqs : alive[w] ~> ~alive[w]

C16_Witness ==
  \E w \in Seqs :
    /\ pc[w] = "done"
    /\ WaitFailed(w, 1)
    /\ Cardinality(CallSteps(w)) = 1
    /\ \E v \in Seqs : Completed(v) /\ Cardinality(WaitSteps(v)) = SeqLen

\* The gateway calls and the waits made in this run for operation i of sequence s,
\* as pairs of job and trace position.
CallsOn(s, i) ==
  {<<w, k>> \in Seqs \X (1..(5 * SeqLen)) :
     /\ SequenceOf(w) = s
     /\ k <= Len(trace[w])
     /\ IsCall(trace[w][k])
     /\ trace[w][k].op = i}
WaitsOn(s, i) ==
  {<<w, k>> \in Seqs \X (1..(5 * SeqLen)) :
     /\ SequenceOf(w) = s
     /\ k <= Len(trace[w])
     /\ IsWait(trace[w][k])
     /\ trace[w][k].op = i}

\* C17: within one orchestrator run an operation gets at most one gateway call and
\* at most one wait, and a wait is made only after the gateway call for the same
\* operation succeeded in this run.
C17_NoRetry ==
  /\ \A w \in Seqs : Len(trace[w]) <= 5 * SeqLen
  /\ \A s \in Seqs : \A i \in Positions :
       /\ Cardinality(CallsOn(s, i)) <= 1
       /\ Cardinality(WaitsOn(s, i)) <= 1
       /\ \A x \in WaitsOn(s, i) :
            \E k \in 1..(x[2] - 1) : trace[x[1]][k].ev = "call" /\ trace[x[1]][k].op = i

C17_Witness ==
  \E s \in Seqs :
    /\ Cardinality(CallsOn(s, 1)) = 1
    /\ Cardinality(WaitsOn(s, 1)) = 1
    /\ WaitFailed(s, 1)
    /\ pc[s] = "done"
    /\ orchPc = "returned"

\* C18: deploy_in_order with a method that is neither create_stack nor update_stack
\* raises before the try block: the job makes no gateway call and no wait, emits no
\* progress event and no error report, leaves every operation as it was, and ends by
\* the exception.
UnknownMethod ==
  call.fn = "deploy_parallel" /\ call.method \notin {"create_stack", "update_stack"}

C18_UnknownMethodTouchesNothing ==
  UnknownMethod =>
    /\ \A w \in Seqs : trace[w] = <<>> /\ pc[w] \in {"idle", "entry", "raised"}
    /\ \A w \in Seqs : (orchPc \in {"returned", "exited"}) => pc[w] = "raised"
    /\ stacks = pre
    /\ hist = preHist

C18_Witness ==
  /\ UnknownMethod
  /\ orchPc = "returned"
  /\ \A w \in Seqs : pc[w] = "raised"
  /\ \E s \in Seqs : HasStackId(stacks[s][1]) /\ ~HasStackId(stacks[s][2])

\* C19: the runners and orchestrators change nothing but the StackId key: in every
\* state, during and after any run, there are the same sequences with the same
\* operations in the same order, and each operation without its StackId is the dict
\* build_template_params made (StackName, TemplateBody, Parameters, Capabilities).
C19_OnlyStackIdChanges ==
  /\ DOMAIN stacks = Seqs
  /\ \A s \in Seqs :
       /\ DOMAIN stacks[s] = Positions
       /\ \A i \in Positions :
            /\ PopStackId(stacks[s][i]) = BuildTemplateParams(build, s, i)
            /\ DOMAIN stacks[s][i] \ {"StackId"} = DOMAIN BuildTemplateParams(build, s, i)
            /\ stacks[s][i].StackName = <<s, i>>

C19_Witness ==
  /\ orchPc = "returned"
  /\ InDelete
  /\ \E s \in Seqs :
       /\ HasStackId(pre[s][2]) /\ ~HasStackId(stacks[s][2])
       /\ HasStackId(stacks[s][1]) /\ WaitFailed(s, 1)

\* C20: in __main__ of src/scripts/cf-deploy.py delete_parallel starts only after
\* check_user_admission read an answer that lowers to "y"; after "n", or after two
\* answers that are neither, the program has ended with "Cancelled" without spawning
\* a job or calling the gateway; the user is asked at most twice.
Consent(a) == Lower(a) = "y"
Refusal(a) == Lower(a) = "n"
LastAnswer == cli.answers[Len(cli.answers)]
Untouched ==
  /\ orchPc = "idle"
  /\ jobs = <<>>
  /\ runs = 0
  /\ \A w \in Seqs : ~alive[w] /\ trace[w] = <<>>
  /\ stacks = pre

C20_ConfirmationGate ==
  /\ Len(cli.answers) <= 2
  /\ cli.pc \in {"asking", "admitted", "cancelled", "started"}
  /\ cli.pc \in {"asking", "admitted", "cancelled"} => Untouched
  /\ cli.pc \in {"admitted", "started"} =>
       /\ Len(cli.answers) >= 1
       /\ Consent(LastAnswer)
       /\ \A k \in 1..(Len(cli.answers) - 1) :
            ~Consent(cli.answers[k]) /\ ~Refusal(cli.answers[k])
  /\ cli.pc = "cancelled" <=>
       \/ Len(cli.answers) >= 1 /\ Refusal(LastAnswer)
       \/ /\ Len(cli.answers) = 2
          /\ \A k \in 1..2 : ~Consent(cli.answers[k]) /\ ~Refusal(cli.answers[k])

C20_Witness ==
  /\ cli.pc = "started"
  /\ cli.answers = <<"x", "Y">>
  /\ orchPc = "exited"
  /\ \E w \in Seqs : CallOk(w, SeqLen)

====
